---- MODULE Spec2Model ----
(***************************************************************************)
(* Model of the todo page (src/app/page.tsx): the React state of Home, the *)
(* four asynchronous handlers and the `todos` table they talk to.          *)
(*                                                                         *)
(* Every `await supabase...` is split in three steps: the handler issues   *)
(* the call (a record in `calls`, phase "req"), the store serves or fails  *)
(* it (phase "ok" / "err"), and the continuation of the handler runs.      *)
(* Calls overlap freely: nothing in the page waits for a pending call.     *)
(* The continuation of addTodo uses the `todos` of the render in which it  *)
(* was invoked (a closure), so the call record carries that list as snap.  *)
(*                                                                         *)
(* The store is atomic: a call that fails has had no effect on the table.  *)
(* updated_at is written by the page but never read by it; it is left out. *)
(***************************************************************************)
EXTENDS Naturals, Sequences, FiniteSets, Bags, TLC

\* ---------------------------------------------------------------- bounds
MaxOps == 2        \* remote operations the user starts (submit, toggle, remove)
MaxLen == 1        \* longest text typed in the input box
MaxFail == 1       \* calls that come back with an error

Chars == {" ", "a"}
TodoPriority == {"low", "medium", "high"}

Texts == UNION {[1..n -> Chars] : n \in 0..MaxLen}

\* ---------------------------------------------------------------- state
VARIABLES
    todos,       \* useState<Todo[]>: the local list, a sequence of rows
    inputText,   \* useState(''): the pending input, a sequence of characters
    priority,    \* useState<TodoPriority>('medium')
    mounted,     \* the mount effect has run
    remote,      \* the todos table: a set of rows
    calls,       \* bag of calls in flight
    ops,         \* number of remote operations the user has started
    lastEvent,   \* name of the last step taken
    notice,      \* what the last step emitted: "none", "log" (console.error),
                 \* "log+alert" (console.error and alert)
    failures,    \* number of calls that have failed
    solo         \* the operation last started found no call in flight and
                 \* a local list equal to the active rows of the table

vars == <<todos, inputText, priority, mounted, remote, calls, ops,
          lastEvent, notice, failures, solo>>

\* ------------------------------------------------------- pure functions
\* String.prototype.trim on a sequence of characters
RECURSIVE TrimStart(_)
TrimStart(s) ==
    IF s # <<>> /\ Head(s) = " " THEN TrimStart(Tail(s)) ELSE s

RECURSIVE TrimEnd(_)
TrimEnd(s) ==
    IF s # <<>> /\ s[Len(s)] = " " THEN TrimEnd(SubSeq(s, 1, Len(s) - 1)) ELSE s

TrimNone(s) == s

Trim(s) == TrimEnd(TrimStart(s))

Ids(list) == {list[i].id : i \in 1..Len(list)}

\* .order('created_at', { ascending: false })
RECURSIVE OrderDesc(_)
OrderDesc(S) ==
    IF S = {} THEN <<>>
    ELSE LET m == CHOOSE r \in S : \A q \in S : q.created_at <= r.created_at
         IN  <<m>> \o OrderDesc(S \ {m})

\* .select('*').eq('delete_flag', false).order('created_at', desc)
ListAll(R) == OrderDesc(R)

ListActive(R) == OrderDesc({r \in R : r.delete_flag = FALSE})

\* the store's clock: later than the created_at of every row it holds
Now(R) == 10 * (Cardinality(R) + 1)

\* the table as an earlier session left it
InitialTable ==
    {[id |-> 1, text |-> <<"a">>, completed |-> FALSE, priority |-> "low",
      delete_flag |-> FALSE, created_at |-> 10]}

\* the row the store creates for .insert([{text, completed:false, priority,
\* delete_flag:false}]): id and created_at are assigned by the store
NewRowDefaultPriority(c, R, t) ==
    [id |-> Cardinality(R) + 1, text |-> c.text, completed |-> FALSE,
     priority |-> "medium", delete_flag |-> FALSE, created_at |-> t]

NewRowCompleted(c, R, t) ==
    [id |-> Cardinality(R) + 1, text |-> c.text, completed |-> TRUE,
     priority |-> c.priority, delete_flag |-> FALSE, created_at |-> t]

NewRow(c, R, t) ==
    [id |-> Cardinality(R) + 1, text |-> c.text, completed |-> FALSE,
     priority |-> c.priority, delete_flag |-> FALSE, created_at |-> t]

\* .update({completed: v}).eq('id', id)
UpdateCompletedUndeletes(R, id, v) ==
    {IF r.id = id THEN [r EXCEPT !.completed = v, !.delete_flag = FALSE] ELSE r : r \in R}

UpdateCompletedAll(R, id, v) == {[r EXCEPT !.completed = v] : r \in R}

UpdateCompleted(R, id, v) ==
    {IF r.id = id THEN [r EXCEPT !.completed = v] ELSE r : r \in R}

\* .update({delete_flag: true}).eq('id', id)
DeleteRow(R, id) == {r \in R : r.id # id}

UpdateDeleteFlag(R, id) ==
    {IF r.id = id THEN [r EXCEPT !.delete_flag = TRUE] ELSE r : r \in R}

\* [...data, ...todos]
AppendRows(data, list) == list \o data

PrependRows(data, list) == data \o list

\* what lastEvent records of a step
Ev(name) == [name |-> name, cause |-> "", id |-> 0]

\* ---------------------------------------------------------------- calls
Call(op, cause, id, completed, text, prio, snap) ==
    [op |-> op, phase |-> "req", cause |-> cause, id |-> id,
     completed |-> completed, text |-> text, priority |-> prio,
     snap |-> snap, data |-> <<>>]

SelectCall(cause, id) == Call("select", cause, id, FALSE, <<>>, "medium", <<>>)

InFlight == BagToSet(calls)

Issue(c) == calls (+) SetToBag({c})

Done(c) == calls (-) SetToBag({c})

Quiet == calls = EmptyBag /\ todos = ListActive(remote)

\* ----------------------------------------------------------------- init
Init ==
    /\ todos = <<>>
    /\ inputText = <<>>
    /\ priority = "medium"
    /\ mounted = FALSE
    /\ remote = InitialTable
    /\ calls = EmptyBag
    /\ ops = 0
    /\ lastEvent = Ev("init")
    /\ notice = "none"
    /\ failures = 0
    /\ solo = FALSE

\* ---------------------------------------------------------- user actions
\* useEffect(() => { fetchTodos() }, [])
UseEffectTwice ==
    /\ ~mounted
    /\ mounted' = TRUE
    /\ calls' = Issue(SelectCall("mount", 0)) (+) SetToBag({SelectCall("mount", 0)})
    /\ solo' = Quiet
    /\ lastEvent' = Ev("mount")
    /\ notice' = "none"
    /\ UNCHANGED <<todos, inputText, priority, remote, ops, failures>>

UseEffect ==
    /\ ~mounted
    /\ mounted' = TRUE
    /\ calls' = Issue(SelectCall("mount", 0))
    /\ solo' = Quiet
    /\ lastEvent' = Ev("mount")
    /\ notice' = "none"
    /\ UNCHANGED <<todos, inputText, priority, remote, ops, failures>>

\* onChange of the input box
SetInputText(v) ==
    /\ mounted
    /\ v # inputText
    /\ inputText' = v
    /\ lastEvent' = Ev("setInputText")
    /\ notice' = "none"
    /\ UNCHANGED <<todos, priority, mounted, remote, calls, ops, failures, solo>>

\* onChange of the priority select
SetPriority(p) ==
    /\ mounted
    /\ p # priority
    /\ priority' = p
    /\ lastEvent' = Ev("setPriority")
    /\ notice' = "none"
    /\ UNCHANGED <<todos, inputText, mounted, remote, calls, ops, failures, solo>>

\* addTodo up to its await
AddTodo ==
    /\ mounted
    /\ IF Trim(inputText) = <<>>
       THEN /\ lastEvent' = Ev("addTodo:rejected")
            /\ UNCHANGED <<calls, ops, solo>>
       ELSE /\ ops < MaxOps
            /\ calls' = Issue(Call("insert", "user", 0, FALSE, inputText, priority, todos))
            /\ ops' = ops + 1
            /\ solo' = Quiet
            /\ lastEvent' = Ev("addTodo:sent")
    /\ notice' = "none"
    /\ UNCHANGED <<todos, inputText, priority, mounted, remote, failures>>

\* toggleTodo(todo.id, todo.completed) up to its await, for a rendered row
ToggleTodoSendsCurrent(i) ==
    /\ mounted
    /\ ops < MaxOps
    /\ calls' = Issue(Call("toggle", "user", todos[i].id, todos[i].completed,
                           <<>>, "medium", <<>>))
    /\ ops' = ops + 1
    /\ solo' = Quiet
    /\ lastEvent' = Ev("toggleTodo:sent")
    /\ notice' = "none"
    /\ UNCHANGED <<todos, inputText, priority, mounted, remote, failures>>

ToggleTodo(i) ==
    /\ mounted
    /\ ops < MaxOps
    /\ calls' = Issue(Call("toggle", "user", todos[i].id, ~todos[i].completed,
                           <<>>, "medium", <<>>))
    /\ ops' = ops + 1
    /\ solo' = Quiet
    /\ lastEvent' = Ev("toggleTodo:sent")
    /\ notice' = "none"
    /\ UNCHANGED <<todos, inputText, priority, mounted, remote, failures>>

\* deleteTodo(todo.id) up to its await, for a rendered row
DeleteTodo(i) ==
    /\ mounted
    /\ ops < MaxOps
    /\ calls' = Issue(Call("delete", "user", todos[i].id, FALSE, <<>>, "medium", <<>>))
    /\ ops' = ops + 1
    /\ solo' = Quiet
    /\ lastEvent' = Ev("deleteTodo:sent")
    /\ notice' = "none"
    /\ UNCHANGED <<todos, inputText, priority, mounted, remote, failures>>

\* ------------------------------------------------------------- the store
Respond(c, phase, data) == Done(c) (+) SetToBag({[c EXCEPT !.phase = phase, !.data = data]})

ServeSelect(c) ==
    /\ c.op = "select" /\ c.phase = "req"
    /\ calls' = Respond(c, "ok", ListActive(remote))
    /\ lastEvent' = Ev("store:select")
    /\ notice' = "none"
    /\ UNCHANGED <<todos, inputText, priority, mounted, remote, ops, failures, solo>>

ServeInsert(c) ==
    /\ c.op = "insert" /\ c.phase = "req"
    /\ remote' = remote \cup {NewRow(c, remote, Now(remote))}
    /\ calls' = Respond(c, "ok", <<NewRow(c, remote, Now(remote))>>)
    /\ lastEvent' = Ev("store:insert")
    /\ notice' = "none"
    /\ UNCHANGED <<todos, inputText, priority, mounted, ops, failures, solo>>

ServeToggle(c) ==
    /\ c.op = "toggle" /\ c.phase = "req"
    /\ remote' = UpdateCompleted(remote, c.id, c.completed)
    /\ calls' = Respond(c, "ok", <<>>)
    /\ lastEvent' = Ev("store:toggle")
    /\ notice' = "none"
    /\ UNCHANGED <<todos, inputText, priority, mounted, ops, failures, solo>>

ServeDelete(c) ==
    /\ c.op = "delete" /\ c.phase = "req"
    /\ remote' = UpdateDeleteFlag(remote, c.id)
    /\ calls' = Respond(c, "ok", <<>>)
    /\ lastEvent' = Ev("store:delete")
    /\ notice' = "none"
    /\ UNCHANGED <<todos, inputText, priority, mounted, ops, failures, solo>>

\* the call comes back with `error` set
Fail(c) ==
    /\ c.phase = "req"
    /\ calls' = Respond(c, "err", <<>>)
    /\ failures < MaxFail
    /\ failures' = failures + 1
    /\ lastEvent' = Ev("store:error")
    /\ notice' = "none"
    /\ UNCHANGED <<todos, inputText, priority, mounted, remote, ops, solo>>

\* ------------------------------------------------------- continuations
FetchTodosOk(c) ==
    /\ c.op = "select" /\ c.phase = "ok"
    /\ todos' = c.data
    /\ calls' = Done(c)
    /\ lastEvent' = [name |-> "fetchTodos:ok", cause |-> c.cause, id |-> c.id]
    /\ notice' = "none"
    /\ UNCHANGED <<inputText, priority, mounted, remote, ops, failures, solo>>

FetchTodosErrClears(c) ==
    /\ c.op = "select" /\ c.phase = "err"
    /\ todos' = <<>>
    /\ calls' = Done(c)
    /\ lastEvent' = Ev("fetchTodos:err")
    /\ notice' = "log+alert"
    /\ UNCHANGED <<inputText, priority, mounted, remote, ops, failures, solo>>

FetchTodosErr(c) ==
    /\ c.op = "select" /\ c.phase = "err"
    /\ calls' = Done(c)
    /\ lastEvent' = Ev("fetchTodos:err")
    /\ notice' = "log+alert"
    /\ UNCHANGED <<todos, inputText, priority, mounted, remote, ops, failures, solo>>

AddTodoOkCurrent(c) ==
    /\ c.op = "insert" /\ c.phase = "ok"
    /\ todos' = PrependRows(c.data, todos)
    /\ inputText' = <<>>
    /\ calls' = Done(c)
    /\ lastEvent' = Ev("addTodo:ok")
    /\ notice' = "none"
    /\ UNCHANGED <<priority, mounted, remote, ops, failures, solo>>

AddTodoOk(c) ==
    /\ c.op = "insert" /\ c.phase = "ok"
    /\ todos' = PrependRows(c.data, c.snap)
    /\ inputText' = <<>>
    /\ calls' = Done(c)
    /\ lastEvent' = Ev("addTodo:ok")
    /\ notice' = "none"
    /\ UNCHANGED <<priority, mounted, remote, ops, failures, solo>>

AddTodoErrClearsInput(c) ==
    /\ c.op = "insert" /\ c.phase = "err"
    /\ inputText' = <<>>
    /\ calls' = Done(c)
    /\ lastEvent' = Ev("addTodo:err")
    /\ notice' = "log+alert"
    /\ UNCHANGED <<todos, priority, mounted, remote, ops, failures, solo>>

AddTodoErr(c) ==
    /\ c.op = "insert" /\ c.phase = "err"
    /\ calls' = Done(c)
    /\ lastEvent' = Ev("addTodo:err")
    /\ notice' = "log+alert"
    /\ UNCHANGED <<todos, inputText, priority, mounted, remote, ops, failures, solo>>

ToggleTodoOkNoReload(c) ==
    /\ c.op = "toggle" /\ c.phase = "ok"
    /\ calls' = Done(c)
    /\ lastEvent' = Ev("toggleTodo:ok")
    /\ notice' = "none"
    /\ UNCHANGED <<todos, inputText, priority, mounted, remote, ops, failures, solo>>

ToggleTodoOk(c) ==
    /\ c.op = "toggle" /\ c.phase = "ok"
    /\ calls' = Done(c) (+) SetToBag({SelectCall("toggle", c.id)})
    /\ lastEvent' = Ev("toggleTodo:ok")
    /\ notice' = "none"
    /\ UNCHANGED <<todos, inputText, priority, mounted, remote, ops, failures, solo>>

ToggleTodoErrRetries(c) ==
    /\ c.op = "toggle" /\ c.phase = "err"
    /\ calls' = Done(c) (+) SetToBag({[c EXCEPT !.phase = "req"]})
    /\ lastEvent' = Ev("toggleTodo:err")
    /\ notice' = "log"
    /\ UNCHANGED <<todos, inputText, priority, mounted, remote, ops, failures, solo>>

ToggleTodoErr(c) ==
    /\ c.op = "toggle" /\ c.phase = "err"
    /\ calls' = Done(c)
    /\ lastEvent' = Ev("toggleTodo:err")
    /\ notice' = "log"
    /\ UNCHANGED <<todos, inputText, priority, mounted, remote, ops, failures, solo>>

DeleteTodoOk(c) ==
    /\ c.op = "delete" /\ c.phase = "ok"
    /\ calls' = Done(c) (+) SetToBag({SelectCall("delete", c.id)})
    /\ lastEvent' = Ev("deleteTodo:ok")
    /\ notice' = "none"
    /\ UNCHANGED <<todos, inputText, priority, mounted, remote, ops, failures, solo>>

DeleteTodoErr(c) ==
    /\ c.op = "delete" /\ c.phase = "err"
    /\ calls' = Done(c)
    /\ lastEvent' = Ev("deleteTodo:err")
    /\ notice' = "log"
    /\ UNCHANGED <<todos, inputText, priority, mounted, remote, ops, failures, solo>>

\* ----------------------------------------------------------------- next
Next ==
    \/ UseEffect
    \/ \E v \in Texts : SetInputText(v)
    \/ \E p \in TodoPriority : SetPriority(p)
    \/ AddTodo
    \/ \E i \in 1..Len(todos) : ToggleTodo(i)
    \/ \E i \in 1..Len(todos) : DeleteTodo(i)
    \/ \E c \in InFlight : ServeSelect(c)
    \/ \E c \in InFlight : ServeInsert(c)
    \/ \E c \in InFlight : ServeToggle(c)
    \/ \E c \in InFlight : ServeDelete(c)
    \/ \E c \in InFlight : Fail(c)
    \/ \E c \in InFlight : FetchTodosOk(c)
    \/ \E c \in InFlight : FetchTodosErr(c)
    \/ \E c \in InFlight : AddTodoOk(c)
    \/ \E c \in InFlight : AddTodoErr(c)
    \/ \E c \in InFlight : ToggleTodoOk(c)
    \/ \E c \in InFlight : ToggleTodoErr(c)
    \/ \E c \in InFlight : DeleteTodoOk(c)
    \/ \E c \in InFlight : DeleteTodoErr(c)

Spec == Init /\ [][Next]_vars

\* ---------------------------------------------------------------- claims
OnlyWhitespace(s) == \A i \in 1..Len(s) : s[i] = " "

\* the responses a step put in flight
NewIn(after, before) == {c \in BagToSet(after) : CopiesIn(c, after) > CopiesIn(c, before)}

\* C1: addTodo invoked while the input is empty or only whitespace issues no
\* call and leaves the local list, the input, the priority and the table as
\* they were.
C1_BlankSubmitIsNoOp ==
    [][(AddTodo /\ OnlyWhitespace(inputText))
         => UNCHANGED <<calls, todos, inputText, priority, remote>>]_vars

C1_Witness ==
    /\ lastEvent.name = "addTodo:rejected"
    /\ inputText = <<" ">>

\* C2: a submit of a non-blank text issues exactly one insert carrying the
\* input text and the selected priority; the store serving an insert adds
\* exactly one row, with a fresh id, that text and priority, completed=false
\* and delete_flag=false, which the list query then returns exactly once; no
\* other step adds or removes a row. Overlapping submits each get their row.
C2_SubmitAddsOneRow ==
    [][/\ (AddTodo /\ ~OnlyWhitespace(inputText)) =>
            \E c \in NewIn(calls', calls) :
                /\ calls' = calls (+) SetToBag({c})
                /\ c.op = "insert" /\ c.phase = "req"
                /\ c.text = inputText /\ c.priority = priority
       /\ \A c \in InFlight : ServeInsert(c) =>
            /\ remote \subseteq remote'
            /\ Cardinality(remote' \ remote) = 1
            /\ \A r \in remote' \ remote :
                /\ r.id \notin {q.id : q \in remote}
                /\ r.text = c.text /\ r.priority = c.priority
                /\ r.completed = FALSE /\ r.delete_flag = FALSE
                /\ LET L == ListActive(remote')
                   IN  Cardinality({i \in 1..Len(L) : L[i] = r}) = 1
                /\ \E d \in NewIn(calls', calls) : d.phase = "ok" /\ d.data = <<r>>
       /\ (~ \E c \in InFlight : ServeInsert(c)) =>
            Cardinality(remote') = Cardinality(remote)]_vars

C2_Witness ==
    \E c1, c2 \in InFlight :
        /\ c1.op = "insert" /\ c1.phase = "ok"
        /\ c2.op = "insert" /\ c2.phase = "ok"
        /\ c1.data # c2.data
        /\ c1.data[1] \in remote /\ c2.data[1] \in remote

\* C3: a toggle started with no other call in flight and the local list in
\* step with the table, served and followed by its reload, flips exactly the
\* completed field of the row it names: the reloaded list is the previous
\* list with that row's completed negated, every other field and row as is.
C3_ToggleFlipsOnlyCompleted ==
    [][\A c \in InFlight : (FetchTodosOk(c) /\ c.cause = "toggle" /\ solo) =>
            /\ c.id \in Ids(todos)
            /\ Len(todos') = Len(todos)
            /\ \A i \in 1..Len(todos) :
                 todos'[i] = IF todos[i].id = c.id
                             THEN [todos[i] EXCEPT !.completed = ~todos[i].completed]
                             ELSE todos[i]]_vars

C3_Witness ==
    /\ lastEvent.name = "fetchTodos:ok" /\ lastEvent.cause = "toggle"
    /\ solo
    /\ Len(todos) >= 2
    /\ \E i \in 1..Len(todos) : todos[i].id = lastEvent.id /\ todos[i].completed

\* C4: the reload that follows a served remove installs a list without the
\* removed row, while the table still holds that row with delete_flag=true;
\* when the remove ran alone from a list in step with the table, the list is
\* the previous one less that row.
C4_RemoveHidesRowKeepsIt ==
    [][\A c \in InFlight : (FetchTodosOk(c) /\ c.cause = "delete") =>
            /\ c.id \notin Ids(todos')
            /\ \E r \in remote : r.id = c.id /\ r.delete_flag = TRUE
            /\ solo => todos' = SelectSeq(todos, LAMBDA r : r.id # c.id)]_vars

C4_Witness ==
    /\ lastEvent.name = "fetchTodos:ok" /\ lastEvent.cause = "delete"
    /\ solo
    /\ Len(todos) >= 1
    /\ \E r \in remote : r.id = lastEvent.id /\ r.delete_flag

\* C5: every result of the list query holds only rows that are in the table
\* with delete_flag=false when the query is served.
C5_ListActiveExcludesDeleted ==
    [][\A c \in InFlight : ServeSelect(c) =>
            \A d \in NewIn(calls', calls) :
                \A i \in 1..Len(d.data) :
                    d.data[i] \in remote /\ d.data[i].delete_flag = FALSE]_vars

C5_Witness ==
    /\ lastEvent.name = "store:select"
    /\ \E r \in remote : r.delete_flag
    /\ \E r \in remote : ~r.delete_flag

\* C6: the local list is always ordered by created_at descending: a row with
\* a larger created_at comes before one with a smaller created_at.
C6_LocalListOrdered ==
    \A i, j \in 1..Len(todos) :
        todos[i].created_at > todos[j].created_at => i < j

C6_Witness ==
    /\ lastEvent.name = "addTodo:ok"
    /\ Len(todos) >= 2

\* C7: once the page has mounted, whenever no call is in flight and no call
\* has failed, the local list is the active rows of the table, newest first.
C7_LocalMirrorsRemote ==
    (mounted /\ calls = EmptyBag /\ failures = 0) => todos = ListActive(remote)

\* C8: the continuation of a successful insert leaves the local list equal to
\* the returned rows followed by the list as it stood just before, and the
\* input empty.
C8_PrependKeepsCurrentList ==
    [][\A c \in InFlight : AddTodoOk(c) =>
            /\ todos' = c.data \o todos
            /\ inputText' = <<>>]_vars

\* C9: a failed insert leaves the table without a new row, and its
\* continuation alerts the user and leaves the local list, the input text and
\* the priority as they were, issuing no further call.
C9_FailedSubmitChangesNothing ==
    [][/\ \A c \in InFlight : (Fail(c) /\ c.op = "insert") =>
            UNCHANGED <<remote, todos, inputText, priority>>
       /\ \A c \in InFlight : AddTodoErr(c) =>
            /\ UNCHANGED <<remote, todos, inputText, priority>>
            /\ notice' = "log+alert"
            /\ calls' = Done(c)]_vars

C9_Witness ==
    /\ lastEvent.name = "addTodo:err"
    /\ notice = "log+alert"
    /\ inputText # <<>>

\* C10 as stated: each of the four failure continuations logs and alerts, and
\* none issues the call again.
C10_EveryFailureAlerts ==
    [][\A c \in InFlight :
          (FetchTodosErr(c) \/ AddTodoErr(c) \/ ToggleTodoErr(c) \/ DeleteTodoErr(c))
            => notice' = "log+alert" /\ calls' = Done(c)]_vars

\* C10 amended: a failed list fetch and a failed insert are logged and
\* alerted; a failed toggle and a failed soft delete are logged only; no
\* failure continuation issues a call.
C10_FailuresLoggedSomeAlerted ==
    [][\A c \in InFlight :
          /\ (FetchTodosErr(c) \/ AddTodoErr(c))
                => notice' = "log+alert" /\ calls' = Done(c)
          /\ (ToggleTodoErr(c) \/ DeleteTodoErr(c))
                => notice' = "log" /\ calls' = Done(c)]_vars

C10_Witness ==
    /\ lastEvent.name \in {"toggleTodo:err", "deleteTodo:err"}
    /\ notice = "log"
    /\ calls = EmptyBag

\* C11: the continuation of a failed list fetch, of a failed toggle and of a
\* failed remove each leave the local list as it was, and the last two issue
\* no list reload (nor any other call).
C11_FailureKeepsLocalList ==
    [][\A c \in InFlight :
          (FetchTodosErr(c) \/ ToggleTodoErr(c) \/ DeleteTodoErr(c)) =>
              /\ todos' = todos
              /\ calls' = Done(c)
              /\ NewIn(calls', calls) = {}]_vars

C11_Witness ==
    /\ lastEvent.name = "fetchTodos:err"
    /\ Len(todos) >= 1

\* the list fetch of the mount effect has not been answered and handled yet
MountPending ==
    ~mounted \/ \E c \in InFlight : c.op = "select" /\ c.cause = "mount"

\* C12: mounting issues the list fetch exactly once and nothing issues it
\* again; its success replaces the local list by the result, its failure
\* alerts and leaves the list as it is; until that response is handled the
\* list is empty unless the continuation of a successful insert filled it.
C12_InitialLoadOnce ==
    [][/\ (~mounted /\ mounted') => calls' = SetToBag({SelectCall("mount", 0)})
       /\ mounted =>
            /\ mounted'
            /\ \A c \in NewIn(calls', calls) :
                 ~(c.op = "select" /\ c.cause = "mount" /\ c.phase = "req")
       /\ \A c \in InFlight : (FetchTodosOk(c) /\ c.cause = "mount") =>
            todos' = c.data
       /\ \A c \in InFlight : (FetchTodosErr(c) /\ c.cause = "mount") =>
            todos' = todos /\ notice' = "log+alert"
       /\ (MountPending /\ todos = <<>> /\ todos' # <<>>) =>
            \E c \in InFlight :
                AddTodoOk(c) \/ (FetchTodosOk(c) /\ c.cause = "mount")]_vars

C12_Witness ==
    /\ lastEvent.name = "fetchTodos:ok" /\ lastEvent.cause = "mount"
    /\ todos = ListActive(remote)
    /\ todos # <<>>
    /\ ops = 0

\* C13: the continuation of a successful toggle and of a successful remove
\* issues exactly one list fetch and leaves the local list alone; the
\* continuation of a successful insert issues no call and puts the returned
\* rows at the head of the local list.
C13_ReloadAfterUpdateMergeAfterInsert ==
    [][\A c \in InFlight :
          /\ (ToggleTodoOk(c) \/ DeleteTodoOk(c)) =>
                /\ todos' = todos
                /\ \E f \in NewIn(calls', calls) :
                      /\ f.op = "select" /\ f.phase = "req"
                      /\ calls' = Done(c) (+) SetToBag({f})
          /\ AddTodoOk(c) =>
                /\ calls' = Done(c)
                /\ NewIn(calls', calls) = {}
                /\ Len(todos') >= Len(c.data)
                /\ SubSeq(todos', 1, Len(c.data)) = c.data]_vars

C13_Witness ==
    /\ lastEvent.name \in {"toggleTodo:ok", "deleteTodo:ok"}
    /\ \E f \in InFlight : f.op = "select" /\ f.phase = "req" /\ f.cause # "mount"

\* C14: no step removes a row from the table, turns a delete_flag from true
\* to false, or changes a row's id, text, priority or created_at; and no list
\* query served returns a row whose delete_flag is true in the table.
C14_SoftDeleteIsPermanent ==
    [][/\ \A r \in remote : \E q \in remote' :
            /\ q.id = r.id /\ q.text = r.text
            /\ q.priority = r.priority /\ q.created_at = r.created_at
            /\ r.delete_flag => q.delete_flag
       /\ \A c \in InFlight : ServeSelect(c) =>
            \A d \in NewIn(calls', calls) :
                Ids(d.data) \cap {r.id : r \in {q \in remote : q.delete_flag}} = {}]_vars

C14_Witness ==
    /\ lastEvent.name = "store:toggle"
    /\ \A r \in remote : r.delete_flag /\ r.completed

\* C15: the value a toggle sends is the negation of the completed value the
\* local list holds for the row when the handler is invoked, and the store
\* writes that value whatever the row held; two toggles of one row invoked
\* from the same list send the same value and leave the row with it.
C15_ToggleSendsNegatedLocalValue ==
    [][/\ \A i \in 1..Len(todos) : ToggleTodo(i) =>
            \E c \in NewIn(calls', calls) :
                /\ calls' = calls (+) SetToBag({c})
                /\ c.op = "toggle" /\ c.phase = "req"
                /\ c.id = todos[i].id
                /\ c.completed = ~todos[i].completed
       /\ \A c \in InFlight : ServeToggle(c) =>
            \A r \in remote' : r.id = c.id => r.completed = c.completed]_vars

C15_Witness ==
    \E c \in InFlight :
        /\ c.op = "toggle" /\ c.phase = "ok"
        /\ CopiesIn(c, calls) = 2
        /\ \E r \in remote : r.id = c.id /\ r.completed = c.completed

\* C16: the local list never holds two entries with the same id.
C16_LocalIdsUnique ==
    \A i, j \in 1..Len(todos) : todos[i].id = todos[j].id => i = j

C16_Witness ==
    /\ lastEvent.name = "addTodo:ok"
    /\ Len(todos) = 2
    /\ ~solo

\* C17: every row a step adds to the table has a text that is not blank, a
\* priority among low, medium and high, completed=false and delete_flag=false,
\* and its text and priority are those of an insert in flight, which are the
\* input text and the selected priority at the moment addTodo was invoked.
C17_CreatedRowsWellFormed ==
    [][/\ \A r \in {q \in remote' : q.id \notin {o.id : o \in remote}} :
            /\ ~OnlyWhitespace(r.text)
            /\ r.priority \in TodoPriority
            /\ r.completed = FALSE /\ r.delete_flag = FALSE
            /\ \E c \in InFlight :
                 /\ c.op = "insert" /\ c.phase = "req"
                 /\ c.text = r.text /\ c.priority = r.priority
       /\ \A c \in NewIn(calls', calls) : (c.op = "insert" /\ c.phase = "req") =>
            /\ c.text = inputText /\ c.priority = priority
            /\ ~OnlyWhitespace(inputText)]_vars

C17_Witness ==
    /\ lastEvent.name = "store:insert"
    /\ \E r \in remote : r.id = 2 /\ r.priority = "high" /\ ~r.completed
====
